---- MODULE Spec2Model ----
(***************************************************************************)
(* Model of xPlat::SignatureValidator (Win32 PAL),                         *)
(* src/src/xPlatAppx/PAL/Signature/Win32/SignatureValidator.cpp.           *)
(*                                                                         *)
(* Spec       : one call of SignatureValidator::Validate on a stream.      *)
(* SpecOrigin : the origin classification of lines 452-457                 *)
(*              (IsStoreOrigin || IsAuthenticodeOrigin || option) applied  *)
(*              to a signature buffer, with every trust-engine answer      *)
(*              (CryptQueryObject, CertEnumCertificatesInStore, ...) drawn *)
(*              from a bounded set.                                        *)
(***************************************************************************)
EXTENDS Integers, Sequences, FiniteSets

VARIABLES
    option,      \* APPX_VALIDATION_OPTION bits given to Validate
    stream,      \* the IStream: [length, header]
    blob,        \* what the trust engine makes of the bytes after the header
    pos,         \* stream position
    uli,         \* ULARGE_INTEGER uli (QuadPart)
    fileID,      \* DWORD fileID
    streamSize,  \* std::uint32_t streamSize, as two 16-bit limbs
    actualRead,  \* ULONG actualRead
    seeks,       \* number of stream->Seek calls made
    reads,       \* number of stream->Read calls made
    engineOps,   \* number of trust-engine (crypt32) calls made
    handles,     \* every provider handle acquired so far
    cur,         \* pCertContext of GetCertContext: <<>> is NULL
    enumerated,  \* what CertEnumCertificatesInStore has returned, in order
    eku,         \* the EKU sources GetEnhancedKeyUsage has read: <<>> before
    storeEKU,    \* DoesSignatureCertContainStoreEKU: "unset", "TRUE", "FALSE"
    caller,      \* which origin check runs GetCertChainContext
    retStore,    \* IsStoreOrigin: "unset", "TRUE", "FALSE", "throw"
    retAuth,     \* IsAuthenticodeOrigin: "unset", "TRUE", "FALSE", "throw"
    uses,        \* how certificate references have been used
    pc,          \* position in the code
    outcome      \* "running", "true", "false", "SignatureInvalid", "bad_alloc"

vars == <<option, stream, blob, pos, uli, fileID, streamSize, actualRead,
          seeks, reads, engineOps, handles, cur, enumerated, eku, storeEKU,
          caller, retStore, retAuth, uses, pc, outcome>>

streamVars == <<pos, uli, fileID, streamSize, actualRead, seeks, reads>>
originVars == <<engineOps, handles, cur, enumerated, eku, storeEKU, caller,
                retStore, retAuth, uses>>

-----------------------------------------------------------------------------
(* Bounds of the model *)

MaxTail == 2     \* stream lengths tried on each side of the two length limits
MaxCerts == 2    \* certificates in a PKCS#7 bundle
MaxOids == 2     \* usage identifiers in one EKU source

-----------------------------------------------------------------------------
(* Constants of the program *)

HeaderSize == 4                  \* sizeof(P7X_FILE_ID), sizeof(fileID)
MaxStreamSize == 2097152         \* (2 << 20)
Limb == 65536                    \* std::uint32_t is two 16-bit limbs
STRSAFE_MAX_CCH == 2147483647
P7X_FILE_ID == "P7X_FILE_ID"
WindowsStore == "OID::WindowsStore"
OtherOid == "1.3.6.1.5.5.7.3.3"
SKIPSIGNATURE == "APPX_VALIDATION_OPTION_SKIPSIGNATURE"
ALLOWUNKNOWNORIGIN == "APPX_VALIDATION_OPTION_ALLOWUNKNOWNORIGIN"

-----------------------------------------------------------------------------
(* 32-bit unsigned arithmetic on [hi, lo] limbs *)

ToU32(n) == [hi |-> (n \div Limb) % Limb, lo |-> n % Limb]

SubU32(a, b) ==
    LET borrow == IF a.lo < b.lo THEN 1 ELSE 0
    IN  [hi |-> (a.hi - b.hi - borrow + 2 * Limb) % Limb,
         lo |-> (a.lo - b.lo + Limb) % Limb]

\* n >= u for a natural n below 2^31
GeqU32(n, u) == \/ n \div Limb > u.hi
                \/ n \div Limb = u.hi /\ n % Limb >= u.lo

-----------------------------------------------------------------------------
(* Inputs *)

Options == SUBSET {SKIPSIGNATURE, ALLOWUNKNOWNORIGIN}

StreamLengths ==
    (0 .. HeaderSize + MaxTail)
      \cup ((MaxStreamSize - MaxTail) .. (MaxStreamSize + MaxTail))

Headers == {P7X_FILE_ID, "other"}

Streams == [length : StreamLengths, header : Headers]

\* What CryptQueryObject(CERT | PKCS7_SIGNED | PKCS7_UNSIGNED) reports.
CertQueries == {"fail", "cert", "pkcs7"}

\* How far GetCertChainContext gets on the blob.
P7Outcomes == {"query_fail", "size_fail", "size_bad", "info_fail",
               "no_signer", "chain_fail", "chain"}

\* signerInfoSize values CryptMsgGetParam can report
SignerInfoSizes == {0, 64, MaxStreamSize, STRSAFE_MAX_CCH}

Blobs ==
    { b \in [certQuery : CertQueries, p7 : P7Outcomes,
             signerInfoSize : SignerInfoSizes,
             msRoot : BOOLEAN, authenticode : BOOLEAN] :
        \* one buffer: a PKCS#7 signed message is also a PKCS#7 bundle
        /\ (b.certQuery # "pkcs7" => b.p7 = "query_fail")
        \* the size is looked at only once the size query has succeeded
        /\ (b.p7 \in {"query_fail", "size_fail"} => b.signerInfoSize = 0)
        /\ (b.p7 \notin {"query_fail", "size_fail"} =>
              (b.p7 = "size_bad" <=> b.signerInfoSize \in {0, STRSAFE_MAX_CCH}))
        \* the policies are evaluated only on a built chain
        /\ (b.p7 # "chain" => ~b.msRoot /\ ~b.authenticode) }

BasicConstraints == {"absent", "undecodable", "ca", "notca"}

\* A certificate as IsCertificateSelfSigned and IsCACert see it.
Certs == [issuerIsSubject : BOOLEAN, signatureVerifies : BOOLEAN,
          basicConstraints : BasicConstraints]

OidSeqs == UNION { [1..n -> {WindowsStore, OtherOid}] : n \in 0..MaxOids }

\* One EKU source of a certificate (extension or property).
EkuSources ==
    {[st |-> "notfound", ids |-> <<>>], [st |-> "error", ids |-> <<>>]}
      \cup { [st |-> "found", ids |-> s] : s \in OidSeqs }

-----------------------------------------------------------------------------
(* Validate, lines 427-449: the container parser *)

\* variant: the skip bit is honoured only when no other bit is set
SkipRequested_Alone(opt) == opt = {SKIPSIGNATURE}

SkipRequested(opt) == SKIPSIGNATURE \in opt

\* variant: a stream of exactly the header size is let through
LengthInvalid_Strict(len) == len < HeaderSize \/ len > MaxStreamSize

LengthInvalid(len) == len <= HeaderSize \/ len > MaxStreamSize

Throw(kind) == /\ pc' = "done"
               /\ outcome' = kind

\* line 433
Validate_Skip ==
    /\ pc = "Validate"
    /\ IF SkipRequested(option)
         THEN pc' = "done" /\ outcome' = "false"
         ELSE pc' = "SeekEnd" /\ outcome' = outcome
    /\ UNCHANGED <<option, stream, blob, streamVars, originVars>>

\* line 437: Seek(END) reports the new position, the length, in uli
Validate_SeekEnd ==
    /\ pc = "SeekEnd"
    /\ pos' = stream.length
    /\ uli' = stream.length
    /\ seeks' = seeks + 1
    /\ pc' = "CheckLength"
    /\ UNCHANGED <<option, stream, blob, fileID, streamSize, actualRead,
                   reads, originVars, outcome>>

\* line 438
Validate_CheckLength ==
    /\ pc = "CheckLength"
    /\ IF LengthInvalid(uli)
         THEN Throw("SignatureInvalid")
         ELSE pc' = "Rewind" /\ outcome' = outcome
    /\ UNCHANGED <<option, stream, blob, streamVars, originVars>>

\* What the second Seek leaves in uli: it is given &uli again.
RewindPosition(u) == 0

\* line 439: Seek(START) reports the new position, 0, in uli
Validate_Rewind ==
    /\ pc = "Rewind"
    /\ pos' = 0
    /\ uli' = RewindPosition(uli)
    /\ seeks' = seeks + 1
    /\ pc' = "ReadHeader"
    /\ UNCHANGED <<option, stream, blob, fileID, streamSize, actualRead,
                   reads, originVars, outcome>>

\* lines 441-442: the four header bytes are read into the DWORD that line
\* 443 compares (line 442 spells it fileId, line 441 declares fileID)
Validate_ReadHeader ==
    /\ pc = "ReadHeader"
    /\ fileID' = stream.header
    /\ pos' = pos + HeaderSize
    /\ reads' = reads + 1
    /\ pc' = "CheckMagic"
    /\ UNCHANGED <<option, stream, blob, uli, streamSize, actualRead, seeks,
                   originVars, outcome>>

\* line 443
Validate_CheckMagic ==
    /\ pc = "CheckMagic"
    /\ IF fileID # P7X_FILE_ID
         THEN Throw("SignatureInvalid")
         ELSE pc' = "Alloc" /\ outcome' = outcome
    /\ UNCHANGED <<option, stream, blob, streamVars, originVars>>

\* std::vector<std::uint8_t> buffer(n): a buffer no larger than the stream
\* bound is obtained; a larger one may or may not be.
AllocOutcomes(n) ==
    IF GeqU32(MaxStreamSize, n) THEN {"ok"} ELSE {"ok", "bad_alloc"}

\* lines 445-446
Validate_Alloc ==
    /\ pc = "Alloc"
    /\ LET size == SubU32(ToU32(uli), ToU32(HeaderSize))
       IN  /\ streamSize' = size
           /\ \E r \in AllocOutcomes(size) :
                IF r = "ok"
                  THEN pc' = "ReadBlob" /\ outcome' = outcome
                  ELSE Throw("bad_alloc")
    /\ UNCHANGED <<option, stream, blob, pos, uli, fileID, actualRead,
                   seeks, reads, originVars>>

\* The bytes a Read of n bytes can return at position p: all that is there,
\* up to n, or one fewer (a short read).
ReadCounts(p, n) ==
    LET avail == stream.length - p
        full == IF GeqU32(avail, n) THEN n.hi * Limb + n.lo ELSE avail
    IN  {full} \cup (IF full > 0 THEN {full - 1} ELSE {})

\* line 448
Validate_ReadBlob ==
    /\ pc = "ReadBlob"
    /\ \E k \in ReadCounts(pos, streamSize) :
         /\ actualRead' = k
         /\ pos' = pos + k
    /\ reads' = reads + 1
    /\ pc' = "CheckRead"
    /\ UNCHANGED <<option, stream, blob, uli, fileID, streamSize, seeks,
                   originVars, outcome>>

\* line 449; on equality the buffer goes to the origin checks of line 452
Validate_CheckRead ==
    /\ pc = "CheckRead"
    /\ IF ToU32(actualRead) # streamSize
         THEN Throw("SignatureInvalid")
         ELSE pc' = "IsStoreOrigin" /\ outcome' = outcome
    /\ UNCHANGED <<option, stream, blob, streamVars, originVars>>

-----------------------------------------------------------------------------
(* Provider handles and their scoped owners (lines 12-59)                  *)
(* A handle is [kind, owner, open, released]: owner is the function whose  *)
(* unique_ptr holds it, or "raw" while it is a bare pointer.               *)

Acquire(hs, kind, owner) ==
    Append(hs, [kind |-> kind, owner |-> owner, open |-> TRUE, released |-> 0])

\* the deleter of a unique_ptr: CertCloseStore, CryptMsgClose, ...
Release(hs, i) ==
    [hs EXCEPT ![i] = [@ EXCEPT !.open = FALSE, !.released = @ + 1]]

\* the unique_ptr locals of one function go out of scope
ExitScope(hs, fn) ==
    [i \in DOMAIN hs |->
        IF hs[i].owner = fn /\ hs[i].open
          THEN [hs[i] EXCEPT !.open = FALSE, !.released = @ + 1]
          ELSE hs[i]]

\* variant: bare handles, nothing is released when a throw unwinds
Unwind_Leak(hs) == hs

\* a throw unwinds every scope on the stack; a bare pointer has no owner
Unwind(hs) ==
    [i \in DOMAIN hs |->
        IF hs[i].owner # "raw" /\ hs[i].open
          THEN [hs[i] EXCEPT !.open = FALSE, !.released = @ + 1]
          ELSE hs[i]]

\* variant: the pointer is freed instead of being handed over
Adopt_Freed(hs, i, fn) ==
    [hs EXCEPT ![i] = [@ EXCEPT !.open = FALSE, !.released = @ + 1]]

\* a bare pointer is handed to a unique_ptr
Adopt(hs, i, fn) == [hs EXCEPT ![i] = [@ EXCEPT !.owner = fn]]

\* throw xPlat::Exception(xPlat::Error::AppxSignatureInvalid) below the
\* origin check `who`: nothing between there and Validate's caller catches it
ThrowOrigin(hs, who) ==
    /\ handles' = Unwind(hs)
    /\ retStore' = IF who = "IsStoreOrigin" THEN "throw" ELSE retStore
    /\ retAuth' = IF who = "IsAuthenticodeOrigin" THEN "throw" ELSE retAuth
    /\ pc' = "done"
    /\ outcome' = "SignatureInvalid"

\* a certificate reference is read: is its store still open, is it still held
Use(what, c) ==
    [use |-> what, storeOpen |-> handles[c.store].open,
     held |-> handles[c.ctx].open]

-----------------------------------------------------------------------------
(* IsCACert, lines 265-292; IsCertificateSelfSigned, lines 294-320 *)

IsCACert(c) == c.basicConstraints = "ca"

IsCertificateSelfSigned(c) == c.issuerIsSubject /\ c.signatureVerifies

\* variant: only self-signed certificates are passed over
SkipCertificate_SelfSignedOnly(c) == IsCertificateSelfSigned(c)

\* line 367-368: the certificates the enumeration passes over
SkipCertificate(c) == IsCertificateSelfSigned(c) \/ IsCACert(c)

-----------------------------------------------------------------------------
(* GetCertContext, lines 322-380 *)

\* lines 339-355
GetCertContext_Query ==
    /\ pc = "IsStoreOrigin"
    /\ engineOps' = engineOps + 1
    /\ IF blob.certQuery = "fail"
         THEN ThrowOrigin(handles, "IsStoreOrigin")
         ELSE /\ handles' = Acquire(handles, "store", "GetCertContext")
              /\ pc' = "Enumerate"
              /\ UNCHANGED <<retStore, retAuth, outcome>>
    /\ UNCHANGED <<option, stream, blob, streamVars, cur, enumerated, eku,
                   storeEKU, caller, uses>>

StoreOf(fn) ==
    CHOOSE i \in DOMAIN handles :
        handles[i].kind = "store" /\ handles[i].owner = fn /\ handles[i].open

\* what the enumeration saw of a certificate it returned
Seen(c) == [selfSigned |-> c.issuerIsSubject /\ c.signatureVerifies,
            ca |-> c.basicConstraints = "ca"]

\* CertEnumCertificatesInStore(store, prev) frees prev
EnumFree(hs) == IF cur = <<>> THEN hs ELSE Release(hs, cur[1].ctx)

\* lines 357-378: one call of CertEnumCertificatesInStore, which returns the
\* next certificate (a lone certificate is a store of one) or NULL, and, in a
\* bundle, the test of the certificate it returned
GetCertContext_Enumerate ==
    /\ pc = "Enumerate"
    /\ engineOps' = engineOps + 1
    /\ \/ \E c \in Certs :
            /\ Len(enumerated) < MaxCerts
            /\ LET hs == Acquire(EnumFree(handles), "cert", "raw")
                   ref == [cert |-> c, ctx |-> Len(hs),
                           store |-> StoreOf("GetCertContext")]
               IN  /\ handles' = hs
                   /\ cur' = <<ref>>
                   /\ enumerated' = Append(enumerated, Seen(c))
                   /\ IF blob.certQuery = "cert"
                        THEN /\ uses' = uses
                             /\ pc' = "ReturnCert"
                        ELSE /\ uses' = uses \cup
                                  {[use |-> "test",
                                    storeOpen |-> hs[ref.store].open,
                                    held |-> hs[ref.ctx].open]}
                             /\ pc' = IF SkipCertificate(c)
                                        THEN "Enumerate" ELSE "ReturnCert"
       \/ /\ blob.certQuery = "pkcs7"
          /\ handles' = EnumFree(handles)
          /\ cur' = <<>>
          /\ pc' = "ReturnCert"
          /\ UNCHANGED <<enumerated, uses>>
    /\ UNCHANGED <<option, stream, blob, streamVars, eku, storeEKU, caller,
                   retStore, retAuth, outcome>>

\* line 379, and line 386 where the caller's unique_cert_context takes the
\* pointer: certStoreHandle goes out of scope
GetCertContext_Return ==
    /\ pc = "ReturnCert"
    /\ LET hs == ExitScope(handles, "GetCertContext")
       IN  handles' = IF cur = <<>> THEN hs
                      ELSE Adopt(hs, cur[1].ctx, "DoesSignatureCertContainStoreEKU")
    /\ pc' = "GetEnhancedKeyUsage"
    /\ UNCHANGED <<option, stream, blob, streamVars, engineOps, cur,
                   enumerated, eku, storeEKU, caller, retStore, retAuth, uses,
                   outcome>>

-----------------------------------------------------------------------------
(* GetEnhancedKeyUsage, lines 153-229 *)

\* variant: the extension is preferred only when it lists an identifier
GetEnhancedKeyUsage_ByCount(present, ext, prop) ==
    IF ~present \/ ext.st = "error" \/ prop.st = "error"
      THEN [throws |-> TRUE, result |-> FALSE, values |-> <<>>]
    ELSE IF ext.st = "found" /\ Len(ext.ids) > 0
      THEN [throws |-> FALSE, result |-> TRUE, values |-> ext.ids]
    ELSE IF prop.st = "found"
      THEN [throws |-> FALSE, result |-> Len(prop.ids) > 0, values |-> prop.ids]
    ELSE [throws |-> FALSE, result |-> FALSE, values |-> <<>>]

\* present: pCertContext is not NULL (CertGetEnhancedKeyUsage refuses NULL
\* with ERROR_INVALID_PARAMETER).  ext, prop: what the two sources hold.
\* extensionUsage.size() > 0 exactly when the extension was found.
GetEnhancedKeyUsage(present, ext, prop) ==
    IF ~present \/ ext.st = "error" \/ prop.st = "error"
      THEN [throws |-> TRUE, result |-> FALSE, values |-> <<>>]
    ELSE IF ext.st = "found"
      THEN [throws |-> FALSE, result |-> Len(ext.ids) > 0, values |-> ext.ids]
    ELSE IF prop.st = "found"
      THEN [throws |-> FALSE, result |-> Len(prop.ids) > 0, values |-> prop.ids]
    ELSE [throws |-> FALSE, result |-> FALSE, values |-> <<>>]

\* lines 391-401: the loop over oids
ContainsStoreEKU(r) ==
    r.result /\ \E i \in 1..Len(r.values) : r.values[i] = WindowsStore

\* lines 386-402: DoesSignatureCertContainStoreEKU once GetCertContext has
\* returned, and the branch of line 408 that its answer selects; the
\* certificate pointer does not outlive the function
DoesSignatureCertContainStoreEKU ==
    /\ pc = "GetEnhancedKeyUsage"
    /\ engineOps' = engineOps + 1
    /\ \E ext \in EkuSources, prop \in EkuSources :
         LET r == GetEnhancedKeyUsage(cur # <<>>, ext, prop)
         IN  /\ eku' = IF cur = <<>> THEN <<>> ELSE <<[ext |-> ext, prop |-> prop]>>
             /\ uses' = IF cur = <<>> THEN uses
                        ELSE uses \cup {Use("eku", cur[1])}
             /\ IF r.throws
                  THEN /\ ThrowOrigin(handles, "IsStoreOrigin")
                       /\ UNCHANGED <<storeEKU, caller>>
                  ELSE /\ handles' =
                            ExitScope(handles, "DoesSignatureCertContainStoreEKU")
                       /\ outcome' = outcome
                       /\ retAuth' = retAuth
                       /\ pc' = "GetCertChainContext"
                       /\ IF ContainsStoreEKU(r)
                            THEN /\ storeEKU' = "TRUE"
                                 /\ caller' = "IsStoreOrigin"
                                 /\ retStore' = retStore
                            ELSE /\ storeEKU' = "FALSE"
                                 /\ caller' = "IsAuthenticodeOrigin"
                                 /\ retStore' = "FALSE"
    /\ cur' = <<>>
    /\ enumerated' = <<>>
    /\ UNCHANGED <<option, stream, blob, streamVars>>

-----------------------------------------------------------------------------
(* GetCertChainContext, lines 61-151 *)

\* lines 77-94
GetCertChainContext_Query ==
    /\ pc = "GetCertChainContext"
    /\ engineOps' = engineOps + 1
    /\ IF blob.p7 = "query_fail"
         THEN ThrowOrigin(handles, caller)
         ELSE /\ handles' =
                   Acquire(Acquire(handles, "store", "GetCertChainContext"),
                           "message", "GetCertChainContext")
              /\ pc' = "SignerInfo"
              /\ UNCHANGED <<retStore, retAuth, outcome>>
    /\ UNCHANGED <<option, stream, blob, streamVars, cur, enumerated, eku,
                   storeEKU, caller, uses>>

\* line 105
SignerInfoSizeInvalid(n) == n = 0 \/ n >= STRSAFE_MAX_CCH

\* lines 98-113
GetCertChainContext_SignerInfo ==
    /\ pc = "SignerInfo"
    /\ engineOps' = engineOps + 1
    /\ IF \/ blob.p7 = "size_fail"
          \/ SignerInfoSizeInvalid(blob.signerInfoSize)
          \/ blob.p7 = "info_fail"
         THEN ThrowOrigin(handles, caller)
         ELSE /\ handles' = handles
              /\ pc' = "FindSigner"
              /\ UNCHANGED <<retStore, retAuth, outcome>>
    /\ UNCHANGED <<option, stream, blob, streamVars, cur, enumerated, eku,
                   storeEKU, caller, uses>>

\* lines 115-126
GetCertChainContext_FindSigner ==
    /\ pc = "FindSigner"
    /\ engineOps' = engineOps + 1
    /\ IF blob.p7 = "no_signer"
         THEN ThrowOrigin(handles, caller)
         ELSE /\ handles' = Acquire(handles, "cert", "GetCertChainContext")
              /\ pc' = "BuildChain"
              /\ UNCHANGED <<retStore, retAuth, outcome>>
    /\ UNCHANGED <<option, stream, blob, streamVars, cur, enumerated, eku,
                   storeEKU, caller, uses>>

\* signingCertContext and the store it was found in
SigningCert ==
    [ctx |-> CHOOSE i \in DOMAIN handles :
                 /\ handles[i].kind = "cert"
                 /\ handles[i].owner = "GetCertChainContext"
                 /\ handles[i].open,
     store |-> StoreOf("GetCertChainContext")]

\* variant: the result of CertGetCertificateChain is not looked at
ChainBuildFails_Unchecked(b) == FALSE

\* does CertGetCertificateChain fail on this blob (line 147)
ChainBuildFails(b) == b.p7 = "chain_fail"

\* lines 128-150, and line 410 or 421 where the caller's
\* unique_cert_chain_context takes the returned pointer
GetCertChainContext_BuildChain ==
    /\ pc = "BuildChain"
    /\ engineOps' = engineOps + 1
    /\ uses' = uses \cup {Use("chain", SigningCert)}
    /\ IF ChainBuildFails(blob)
         THEN ThrowOrigin(handles, caller)
         ELSE /\ LET hs == Acquire(handles, "chain", "raw")
                 IN  handles' = Adopt(ExitScope(hs, "GetCertChainContext"),
                                      Len(hs), caller)
              /\ pc' = "VerifyPolicy"
              /\ UNCHANGED <<retStore, retAuth, outcome>>
    /\ UNCHANGED <<option, stream, blob, streamVars, cur, enumerated, eku,
                   storeEKU, caller>>

-----------------------------------------------------------------------------
(* IsStoreOrigin, lines 405-414; IsAuthenticodeOrigin, lines 417-425 *)

\* lines 231-246
IsMicrosoftTrustedChain(b) == b.msRoot

\* lines 248-263
IsAuthenticodeTrustedChain(b) == b.authenticode

BoolStr(x) == IF x THEN "TRUE" ELSE "FALSE"

\* lines 411-413 and 422-424; the || of lines 453-454 calls
\* IsAuthenticodeOrigin only when IsStoreOrigin returned FALSE
VerifyPolicy ==
    /\ pc = "VerifyPolicy"
    /\ engineOps' = engineOps + 1
    /\ handles' = ExitScope(handles, caller)
    /\ IF caller = "IsStoreOrigin"
         THEN /\ retStore' = BoolStr(IsMicrosoftTrustedChain(blob))
              /\ retAuth' = retAuth
              /\ IF IsMicrosoftTrustedChain(blob)
                   THEN pc' = "Decide" /\ caller' = "none"
                   ELSE pc' = "GetCertChainContext"
                        /\ caller' = "IsAuthenticodeOrigin"
         ELSE /\ retAuth' = BoolStr(IsAuthenticodeTrustedChain(blob))
              /\ retStore' = retStore
              /\ pc' = "Decide"
              /\ caller' = "none"
    /\ UNCHANGED <<option, stream, blob, streamVars, cur, enumerated, eku,
                   storeEKU, uses, outcome>>

\* the third operand of line 455
AllowUnknownOrigin(opt) == ALLOWUNKNOWNORIGIN \in opt

\* lines 452-457
Validate_Decide ==
    /\ pc = "Decide"
    /\ pc' = "done"
    /\ outcome' = IF \/ retStore = "TRUE"
                     \/ retAuth = "TRUE"
                     \/ AllowUnknownOrigin(option)
                    THEN "true" ELSE "SignatureInvalid"
    /\ UNCHANGED <<option, stream, blob, streamVars, originVars>>

-----------------------------------------------------------------------------

OriginInit ==
    /\ engineOps = 0
    /\ handles = <<>>
    /\ cur = <<>>
    /\ enumerated = <<>>
    /\ eku = <<>>
    /\ storeEKU = "unset"
    /\ caller = "none"
    /\ retStore = "unset"
    /\ retAuth = "unset"
    /\ uses = {}

Init ==
    /\ option \in Options
    /\ stream \in Streams
    /\ blob \in Blobs
    /\ pos = 0
    /\ uli = 0
    /\ fileID = "0"
    /\ streamSize = ToU32(0)
    /\ actualRead = 0
    /\ seeks = 0
    /\ reads = 0
    /\ OriginInit
    /\ pc = "Validate"
    /\ outcome = "running"

Next ==
    \/ Validate_Skip
    \/ Validate_SeekEnd
    \/ Validate_CheckLength
    \/ Validate_Rewind
    \/ Validate_ReadHeader
    \/ Validate_CheckMagic
    \/ Validate_Alloc
    \/ Validate_ReadBlob
    \/ Validate_CheckRead

Spec == Init /\ [][Next]_vars

-----------------------------------------------------------------------------
(* The origin checks on a buffer: the state of Validate at line 452 when    *)
(* the bytes after the header have been read into the buffer.              *)

InitOrigin ==
    /\ option \in SUBSET {ALLOWUNKNOWNORIGIN}
    /\ stream = [length |-> MaxStreamSize, header |-> P7X_FILE_ID]
    /\ blob \in Blobs
    /\ pos = stream.length
    /\ uli = 0
    /\ fileID = P7X_FILE_ID
    /\ streamSize = ToU32(stream.length - HeaderSize)
    /\ actualRead = stream.length - HeaderSize
    /\ seeks = 2
    /\ reads = 2
    /\ OriginInit
    /\ pc = "IsStoreOrigin"
    /\ outcome = "running"

NextOrigin ==
    \/ GetCertContext_Query
    \/ GetCertContext_Enumerate
    \/ GetCertContext_Return
    \/ DoesSignatureCertContainStoreEKU
    \/ GetCertChainContext_Query
    \/ GetCertChainContext_SignerInfo
    \/ GetCertChainContext_FindSigner
    \/ GetCertChainContext_BuildChain
    \/ VerifyPolicy
    \/ Validate_Decide

SpecOrigin == InitOrigin /\ [][NextOrigin]_vars

-----------------------------------------------------------------------------
(* Properties *)

LengthOutOfBounds == stream.length <= 4 \/ stream.length > 2097152
WellFormedStream == ~LengthOutOfBounds /\ stream.header = P7X_FILE_ID
Allowed == ALLOWUNKNOWNORIGIN \in option
Skipped == SKIPSIGNATURE \in option

\* C1 (as claimed): when both origin checks have returned false, Validate
\* returns false without AllowUnknownOrigin and true with it.
C1_UntrustedReturnsFalse ==
    (pc = "done" /\ retStore = "FALSE" /\ retAuth = "FALSE")
      => outcome = IF Allowed THEN "true" ELSE "false"

\* C2 (as claimed): with no options set, a stream of the magic followed by a
\* valid PKCS#7 blob whose signer's chain satisfies the Authenticode policy
\* makes Validate return true.
C2_AuthenticodeAccepted ==
    (/\ pc = "done"
     /\ option = {}
     /\ WellFormedStream
     /\ blob.p7 = "chain"
     /\ blob.authenticode)
      => outcome = "true"

\* C3: without SkipSignature, a stream of length <= 4 or > 2,097,152 is never
\* read and an in-bounds stream with a wrong magic is read once (the header);
\* both end in SignatureInvalid, and no trust-engine call is made.
C3_LengthAndMagicRejected ==
    (~Skipped /\ (LengthOutOfBounds \/ stream.header # P7X_FILE_ID))
      => /\ engineOps = 0
         /\ pc = "done" => outcome = "SignatureInvalid"
         /\ LengthOutOfBounds => reads = 0
         /\ reads <= 1

C3_Witness ==
    /\ pc = "done"
    /\ ~Skipped
    /\ stream.length = 2097153
    /\ stream.header = P7X_FILE_ID
    /\ seeks = 1
    /\ outcome = "SignatureInvalid"

\* C4: with SkipSignature set, whatever the stream holds and whether or not
\* AllowUnknownOrigin is set, Validate returns false and never seeks, reads
\* or calls the trust engine.
C4_SkipTouchesNothing ==
    Skipped
      => /\ seeks = 0 /\ reads = 0 /\ engineOps = 0
         /\ pos = 0
         /\ pc \in {"Validate", "done"}
         /\ pc = "done" => outcome = "false"

C4_Witness ==
    /\ pc = "done"
    /\ option = {SKIPSIGNATURE, ALLOWUNKNOWNORIGIN}
    /\ stream.header # P7X_FILE_ID
    /\ stream.length = 2097153
    /\ outcome = "false"

\* C5 (as claimed): when no chain can be built, neither origin check throws,
\* and Validate accepts with AllowUnknownOrigin and rejects without it.
C5_ChainFailureReportsFalse ==
    (pc = "done" /\ blob.p7 = "chain_fail")
      => /\ retStore # "throw"
         /\ retAuth # "throw"
         /\ outcome = IF Allowed THEN "true" ELSE "false"

\* C5 (amended): when no chain can be built, the origin check that attempts
\* the chain build throws SignatureInvalid, the other one has reported false
\* or was never run, and the call ends in SignatureInvalid with or without
\* AllowUnknownOrigin.
C5_ChainFailureThrows ==
    (pc = "done" /\ blob.p7 = "chain_fail")
      => /\ outcome = "SignatureInvalid"
         /\ \/ retStore = "throw" /\ retAuth = "unset"
            \/ retStore = "FALSE" /\ retAuth = "throw"

C5_Witness ==
    /\ pc = "done"
    /\ blob.p7 = "chain_fail"
    /\ Allowed
    /\ retStore = "FALSE"
    /\ retAuth = "throw"
    /\ \E u \in uses : u.use = "chain"
    /\ outcome = "SignatureInvalid"

HasStoreOid(src) ==
    src.st = "found" /\ \E i \in 1..Len(src.ids) : src.ids[i] = WindowsStore
NoIdentifier(src) == src.st = "notfound" \/ src.ids = <<>>

SelfSignedOrCA(e) == e.selfSigned \/ e.ca

\* C7: in a PKCS#7 bundle GetCertContext returns the first certificate, in
\* enumeration order, that is neither self-signed nor a CA, and NULL when
\* every certificate is one or the other.
C7_FirstEndEntity ==
    (pc = "ReturnCert" /\ blob.certQuery = "pkcs7")
      => IF cur = <<>>
           THEN \A i \in DOMAIN enumerated : SelfSignedOrCA(enumerated[i])
           ELSE /\ enumerated # <<>>
                /\ \A i \in 1..(Len(enumerated) - 1) :
                     SelfSignedOrCA(enumerated[i])
                /\ ~SelfSignedOrCA(enumerated[Len(enumerated)])
                /\ cur[1].cert.basicConstraints # "ca"
                /\ ~(cur[1].cert.issuerIsSubject /\ cur[1].cert.signatureVerifies)

C7_Witness ==
    /\ pc = "ReturnCert"
    /\ blob.certQuery = "pkcs7"
    /\ cur # <<>>
    /\ Len(enumerated) = 2
    /\ enumerated[1].ca /\ ~enumerated[1].selfSigned

OpenHandles(fn) ==
    {i \in DOMAIN handles : handles[i].open /\ handles[i].owner = fn}

\* C8: a handle is released at most once, is closed exactly when it has been
\* released, does not outlive the function that acquired it, and none is
\* open once the call has returned or thrown.
C8_HandlesReleasedOnce ==
    /\ \A i \in DOMAIN handles :
         /\ handles[i].released <= 1
         /\ handles[i].open <=> handles[i].released = 0
    /\ pc \notin {"Enumerate", "ReturnCert"} => OpenHandles("GetCertContext") = {}
    /\ pc \notin {"SignerInfo", "FindSigner", "BuildChain"}
         => OpenHandles("GetCertChainContext") = {}
    /\ pc \in {"Decide", "done"} => \A i \in DOMAIN handles : ~handles[i].open

C8_Witness ==
    /\ pc = "done"
    /\ outcome = "SignatureInvalid"
    /\ blob.p7 = "chain_fail"
    /\ Len(handles) >= 5
    /\ \A i \in DOMAIN handles : handles[i].released = 1

\* C9 (as claimed): for an in-bounds stream with the right magic the blob
\* read asks for exactly length - 4 bytes.
C9_ReadsLengthMinusHeader ==
    (pc \in {"ReadBlob", "CheckRead", "IsStoreOrigin"})
      => streamSize = ToU32(stream.length - 4)

\* C10 (as claimed): a certificate reference is never read after the store
\* that produced it has been released.
C10_UsedWhileStoreOpen ==
    \A u \in uses : u.storeOpen

\* C10 (amended): a certificate reference is read only while the certificate
\* context itself is still held; the CA / self-signed test and the chain
\* build read it while its store is open, the EKU read comes after
\* GetCertContext has released the store.
C10_UsedWhileContextHeld ==
    \A u \in uses :
        /\ u.held
        /\ u.use \in {"test", "chain"} => u.storeOpen
        /\ u.use = "eku" => ~u.storeOpen

C10_Witness ==
    /\ [use |-> "eku", storeOpen |-> FALSE, held |-> TRUE] \in uses
    /\ [use |-> "test", storeOpen |-> TRUE, held |-> TRUE] \in uses
    /\ [use |-> "chain", storeOpen |-> TRUE, held |-> TRUE] \in uses

====
